---- MODULE Spec2Model ----
(***************************************************************************)
(* A model of the chess rules of chess_app/src/pieces.ts (the revision     *)
(* that starts at line 626 of that file: Coordinate, Board, the six piece  *)
(* classes, getAvailableMoves, inCheck, inCheckmate, inStalemate) and of   *)
(* the click handler of the game component that drives them.               *)
(*                                                                         *)
(* A Board is the array of pieces the constructor is given, modelled as a  *)
(* sequence in the same order.  A piece is a record of the fields every    *)
(* class carries (kind stands for the class).  The arrays of coordinates   *)
(* that getOpenMoves and getAvailableMoves return are modelled as sets:    *)
(* every caller only iterates them or tests their length against zero.     *)
(*                                                                         *)
(* Where the code throws, the operator of the same name is left without a  *)
(* value (TLC fails on evaluating it); the conditions are named next to    *)
(* the operators and every formula guards its calls with them.             *)
(***************************************************************************)
EXTENDS Integers, Sequences, FiniteSets, TLC

VARIABLES
    board,          \* Game: the current Board (useState(startingBoard))
    color,          \* Game: the color to move
    selectedPiece,  \* Game: the selected piece, or null
    plies,          \* number of moves applied so far (bounds the exploration)
    lastMove,       \* history: the last move applied, or null
    kingMoved,      \* history: the colors whose king has moved
    call            \* the last call made on the board and its outcome, or null

vars == <<board, color, selectedPiece, plies, lastMove, kingMoved, call>>

null == [kind |-> "null"]

(***************************************************************************)
(* Coordinate                                                              *)
(***************************************************************************)
BoardSize == 8

Coordinate(column, row) == [column |-> column, row |-> row]

inBounds(c) ==
    c.column >= 0 /\ c.column < BoardSize /\ c.row >= 0 /\ c.row < BoardSize

AllCoordinates ==
    {Coordinate(column, row) : column \in 0..(BoardSize - 1), row \in 0..(BoardSize - 1)}

(***************************************************************************)
(* The piece constructors, with the defaults the classes give the fields.  *)
(***************************************************************************)
Pawn(c, column, row, firstMove, enPassant) ==
    [kind |-> "Pawn", color |-> c, position |-> Coordinate(column, row),
     firstMove |-> firstMove, enPassant |-> enPassant]

Bishop(c, column, row) ==
    [kind |-> "Bishop", color |-> c, position |-> Coordinate(column, row),
     firstMove |-> FALSE, enPassant |-> FALSE]

Rook(c, column, row, firstMove) ==
    [kind |-> "Rook", color |-> c, position |-> Coordinate(column, row),
     firstMove |-> firstMove, enPassant |-> FALSE]

Queen(c, column, row) ==
    [kind |-> "Queen", color |-> c, position |-> Coordinate(column, row),
     firstMove |-> FALSE, enPassant |-> FALSE]

King(c, column, row, firstMove) ==
    [kind |-> "King", color |-> c, position |-> Coordinate(column, row),
     firstMove |-> firstMove, enPassant |-> FALSE]

Knight(c, column, row) ==
    [kind |-> "Knight", color |-> c, position |-> Coordinate(column, row),
     firstMove |-> FALSE, enPassant |-> FALSE]

(***************************************************************************)
(* Board                                                                   *)
(***************************************************************************)
\* Mutant: Board.isEmpty never throws.
isEmptyThrowsNever(coordinate) == FALSE

\* Board.isEmpty throws when the coordinate is out of bounds.
isEmptyThrows(coordinate) == ~inBounds(coordinate)

\* Mutant: only the first piece of the array is looked at.
isEmptyFirstPieceOnly(b, coordinate) ==
    Len(b) = 0 \/ b[1].position # coordinate

isEmpty(b, coordinate) ==
    \A i \in 1..Len(b) : b[i].position # coordinate

\* Board.getPieceAt returns the first piece of the array on the coordinate and
\* throws when the coordinate is out of bounds or no piece stands on it.
getPieceAtThrows(b, coordinate) ==
    ~inBounds(coordinate) \/ isEmpty(b, coordinate)

getPieceAt(b, coordinate) ==
    b[CHOOSE i \in 1..Len(b) :
        /\ b[i].position = coordinate
        /\ \A j \in 1..(i - 1) : b[j].position # coordinate]

getPieces(b) == b

(***************************************************************************)
(* Sliding pieces: the while loop of Bishop, Rook and Queen.getOpenMoves,  *)
(* from the first square of a direction on.                                *)
(***************************************************************************)
RECURSIVE slide(_, _, _, _, _)

\* Mutant: the loop goes on past a piece of the other color.
slidePastCapture(b, c, newColumn, newRow, direction) ==
    LET newPosition == Coordinate(newColumn, newRow)
    IN  IF ~inBounds(newPosition) THEN {}
        ELSE IF isEmpty(b, newPosition) \/ getPieceAt(b, newPosition).color # c
             THEN {newPosition}
                  \cup slide(b, c, newColumn + direction[1], newRow + direction[2], direction)
             ELSE {}

slide(b, c, newColumn, newRow, direction) ==
    LET newPosition == Coordinate(newColumn, newRow)
    IN  IF ~inBounds(newPosition) THEN {}
        ELSE IF isEmpty(b, newPosition)
             THEN {newPosition}
                  \cup slide(b, c, newColumn + direction[1], newRow + direction[2], direction)
             ELSE IF getPieceAt(b, newPosition).color # c THEN {newPosition} ELSE {}

BishopDirections == {<<1, 1>>, <<1, -1>>, <<-1, 1>>, <<-1, -1>>}

RookDirections == {<<1, 0>>, <<-1, 0>>, <<0, 1>>, <<0, -1>>}

QueenDirections ==
    {<<1, 1>>, <<1, -1>>, <<-1, 1>>, <<-1, -1>>, <<1, 0>>, <<-1, 0>>, <<0, 1>>, <<0, -1>>}

KnightDirections ==
    {<<2, 1>>, <<1, 2>>, <<-2, 1>>, <<-1, 2>>, <<2, -1>>, <<1, -2>>, <<-2, -1>>, <<-1, -2>>}

BishopGetOpenMoves(piece, b) ==
    UNION {slide(b, piece.color, piece.position.column + d[1],
                 piece.position.row + d[2], d) : d \in BishopDirections}

RookGetOpenMoves(piece, b) ==
    UNION {slide(b, piece.color, piece.position.column + d[1],
                 piece.position.row + d[2], d) : d \in RookDirections}

QueenGetOpenMoves(piece, b) ==
    UNION {slide(b, piece.color, piece.position.column + d[1],
                 piece.position.row + d[2], d) : d \in QueenDirections}

\* Mutant: only an empty square is open.
stepIsOpenEmptyOnly(piece, b, newPosition) ==
    /\ inBounds(newPosition)
    /\ isEmpty(b, newPosition)

\* One step of the loops of Knight and King.getOpenMoves.
stepIsOpen(piece, b, newPosition) ==
    /\ inBounds(newPosition)
    /\ ~(~isEmpty(b, newPosition) /\ getPieceAt(b, newPosition).color = piece.color)

KnightGetOpenMoves(piece, b) ==
    {newPosition \in {Coordinate(piece.position.column + d[1], piece.position.row + d[2]) :
                        d \in KnightDirections} : stepIsOpen(piece, b, newPosition)}

(***************************************************************************)
(* Pawn                                                                    *)
(***************************************************************************)
\* White pawns move towards row 0, Black pawns towards row 7.
pawnForward(piece) == IF piece.color = "Black" THEN 1 ELSE -1

\* Mutant: the branch is entered whatever firstMove is.
PawnGetOpenMovesThrowsAnyPawn(piece, b) ==
    LET forward == Coordinate(piece.position.column, piece.position.row + pawnForward(piece))
        doubleForward ==
            Coordinate(piece.position.column, piece.position.row + 2 * pawnForward(piece))
    IN  \/ isEmptyThrows(forward)
        \/ isEmpty(b, forward) /\ isEmptyThrows(doubleForward)

\* The first-move branch calls board.isEmpty(forward) and then, when that
\* square is empty, board.isEmpty(doubleForward), with no bounds test.
PawnGetOpenMovesThrows(piece, b) ==
    LET forward == Coordinate(piece.position.column, piece.position.row + pawnForward(piece))
        doubleForward ==
            Coordinate(piece.position.column, piece.position.row + 2 * pawnForward(piece))
    IN  /\ piece.firstMove
        /\ \/ isEmptyThrows(forward)
           \/ isEmpty(b, forward) /\ isEmptyThrows(doubleForward)

\* Mutant: the en-passant flag of the pawn beside is not read.
besideAnyPawn(piece, b, horizontal) ==
    /\ inBounds(horizontal)
    /\ ~isEmpty(b, horizontal)
    /\ piece.color # getPieceAt(b, horizontal).color
    /\ getPieceAt(b, horizontal).kind = "Pawn"

\* Whether the square beside the pawn holds an opposing pawn with the
\* en-passant flag.
besideEnPassant(piece, b, horizontal) ==
    /\ inBounds(horizontal)
    /\ ~isEmpty(b, horizontal)
    /\ piece.color # getPieceAt(b, horizontal).color
    /\ getPieceAt(b, horizontal).kind = "Pawn"
    /\ getPieceAt(b, horizontal).enPassant

\* Whether a forward-diagonal square holds an opposing piece.
pawnTakes(piece, b, diagonal) ==
    /\ inBounds(diagonal)
    /\ ~isEmpty(b, diagonal)
    /\ piece.color # getPieceAt(b, diagonal).color

PawnGetOpenMoves(piece, b) ==
    LET column == piece.position.column
        row == piece.position.row
        forward == Coordinate(column, row + pawnForward(piece))
        left == Coordinate(column - 1, row + pawnForward(piece))
        right == Coordinate(column + 1, row + pawnForward(piece))
        doubleForward == Coordinate(column, row + 2 * pawnForward(piece))
        leftHorizontal == Coordinate(column - 1, row)
        rightHorizontal == Coordinate(column + 1, row)
    IN  (IF inBounds(forward) /\ isEmpty(b, forward) THEN {forward} ELSE {})
        \cup (IF piece.firstMove /\ isEmpty(b, forward) /\ isEmpty(b, doubleForward)
              THEN {doubleForward} ELSE {})
        \cup (IF pawnTakes(piece, b, left) THEN {left} ELSE {})
        \cup (IF besideEnPassant(piece, b, leftHorizontal) THEN {left} ELSE {})
        \cup (IF pawnTakes(piece, b, right) THEN {right} ELSE {})
        \cup (IF besideEnPassant(piece, b, rightHorizontal) THEN {right} ELSE {})

\* Mutant: the move methods never throw.
moveThrowsNever(newPosition) == FALSE

\* Every move method throws when the new position is out of bounds.
moveThrows(newPosition) == ~inBounds(newPosition)

\* Mutant: a kept pawn is rebuilt with the constructor's default firstMove.
updatedPieceDefaultFirstMove(oldPiece) ==
    IF oldPiece.kind = "Pawn"
    THEN Pawn(oldPiece.color, oldPiece.position.column, oldPiece.position.row, TRUE, FALSE)
    ELSE oldPiece

\* Mutant: a kept pawn keeps its en-passant flag.
updatedPieceKeepsFlag(oldPiece) ==
    oldPiece

\* The copy every move method makes of a piece it keeps: a pawn is rebuilt
\* without its en-passant flag, any other piece is kept as it is.
updatedPiece(oldPiece) ==
    IF oldPiece.kind = "Pawn"
    THEN Pawn(oldPiece.color, oldPiece.position.column, oldPiece.position.row,
              oldPiece.firstMove, FALSE)
    ELSE oldPiece

\* Mutant: the piece on the new position is kept.
keptPiecesKeepsCaptured(piece, newPosition, b) ==
    LET kept == SelectSeq(b, LAMBDA oldPiece : oldPiece.position # piece.position)
    IN  [i \in 1..Len(kept) |-> updatedPiece(kept[i])]

\* The loop over oldPieces of Bishop, Rook, Queen and Knight.move.
keptPieces(piece, newPosition, b) ==
    LET kept == SelectSeq(b, LAMBDA oldPiece :
                    oldPiece.position # newPosition /\ oldPiece.position # piece.position)
    IN  [i \in 1..Len(kept) |-> updatedPiece(kept[i])]

\* Mutant: the rows of the two colors are exchanged.
takesEnPassantWrongRow(piece, newPosition, b, oldPiece) ==
    /\ isEmpty(b, newPosition)
    /\ oldPiece.kind = "Pawn"
    /\ oldPiece.enPassant
    /\ oldPiece.position.column = newPosition.column
    /\ \/ piece.color = "White" /\ oldPiece.position.row = newPosition.row - 1
       \/ piece.color = "Black" /\ oldPiece.position.row = newPosition.row + 1

\* Pawn.move: whether oldPiece is taken en passant by this move.
takesEnPassant(piece, newPosition, b, oldPiece) ==
    /\ isEmpty(b, newPosition)
    /\ oldPiece.kind = "Pawn"
    /\ oldPiece.enPassant
    /\ oldPiece.position.column = newPosition.column
    /\ \/ piece.color = "White" /\ oldPiece.position.row = newPosition.row + 1
       \/ piece.color = "Black" /\ oldPiece.position.row = newPosition.row - 1

\* Pawn.move: the en-passant flag of the pawn the move places.
pawnSetsEnPassant(piece, newPosition) ==
    \/ piece.color = "White" /\ piece.position.row = 6 /\ newPosition.row = 4
    \/ piece.color = "Black" /\ piece.position.row = 1 /\ newPosition.row = 3

\* Mutant: the pawn is never replaced by a queen.
PawnMoveNoPromotion(piece, newPosition, b) ==
    LET kept == SelectSeq(b, LAMBDA oldPiece :
                    /\ oldPiece.position # newPosition
                    /\ oldPiece.position # piece.position
                    /\ ~takesEnPassant(piece, newPosition, b, oldPiece))
        newPieces == [i \in 1..Len(kept) |-> updatedPiece(kept[i])]
    IN  Append(newPieces, Pawn(piece.color, newPosition.column, newPosition.row, FALSE,
                               pawnSetsEnPassant(piece, newPosition)))

PawnMove(piece, newPosition, b) ==
    LET kept == SelectSeq(b, LAMBDA oldPiece :
                    /\ oldPiece.position # newPosition
                    /\ oldPiece.position # piece.position
                    /\ ~takesEnPassant(piece, newPosition, b, oldPiece))
        newPieces == [i \in 1..Len(kept) |-> updatedPiece(kept[i])]
        addedPiece ==
            IF \/ piece.color = "White" /\ newPosition.row = 0
               \/ piece.color = "Black" /\ newPosition.row = 7
            THEN Queen(piece.color, newPosition.column, newPosition.row)
            ELSE Pawn(piece.color, newPosition.column, newPosition.row, FALSE,
                      pawnSetsEnPassant(piece, newPosition))
    IN  Append(newPieces, addedPiece)

BishopMove(piece, newPosition, b) ==
    Append(keptPieces(piece, newPosition, b),
           Bishop(piece.color, newPosition.column, newPosition.row))

RookMove(piece, newPosition, b) ==
    Append(keptPieces(piece, newPosition, b),
           Rook(piece.color, newPosition.column, newPosition.row, FALSE))

QueenMove(piece, newPosition, b) ==
    Append(keptPieces(piece, newPosition, b),
           Queen(piece.color, newPosition.column, newPosition.row))

KnightMove(piece, newPosition, b) ==
    Append(keptPieces(piece, newPosition, b),
           Knight(piece.color, newPosition.column, newPosition.row))

(***************************************************************************)
(* King                                                                    *)
(***************************************************************************)
\* Mutant: a castling move leaves the rook as it is.
kingUpdatedPieceLeavesRook(piece, oldPiece, queensideCastle, kingsideCastle) ==
    IF oldPiece.kind = "Pawn" THEN updatedPiece(oldPiece) ELSE oldPiece

\* King.move: the piece the loop pushes for oldPiece.  A rook is rebuilt on
\* its post-castle square with the constructor's default firstMove.
kingUpdatedPiece(piece, oldPiece, queensideCastle, kingsideCastle) ==
    IF oldPiece.kind = "Pawn" THEN updatedPiece(oldPiece)
    ELSE IF oldPiece.kind = "Rook" /\ queensideCastle
         THEN Rook(oldPiece.color, 3, piece.position.row, TRUE)
    ELSE IF oldPiece.kind = "Rook" /\ kingsideCastle
         THEN Rook(oldPiece.color, 5, piece.position.row, TRUE)
    ELSE oldPiece

\* King.move: whether the loop pushes anything for oldPiece.  While castling,
\* the else-if chain pushes a rook only when it stands on the castling corner.
kingKeeps(piece, newPosition, oldPiece, queensideCastle, kingsideCastle) ==
    /\ oldPiece.position # newPosition
    /\ oldPiece.position # piece.position
    /\ \/ oldPiece.kind # "Rook"
       \/ IF queensideCastle
          THEN oldPiece.position = Coordinate(0, piece.position.row)
          ELSE IF kingsideCastle
               THEN oldPiece.position = Coordinate(7, piece.position.row)
               ELSE TRUE

\* Mutant: the king the move places still counts as unmoved.
KingMoveKeepsFirstMove(piece, newPosition, b) ==
    LET queensideCastle ==
            piece.firstMove /\ newPosition = Coordinate(2, piece.position.row)
        kingsideCastle ==
            piece.firstMove /\ newPosition = Coordinate(6, piece.position.row)
        kept == SelectSeq(b, LAMBDA oldPiece :
                    kingKeeps(piece, newPosition, oldPiece, queensideCastle, kingsideCastle))
        newPieces == [i \in 1..Len(kept) |->
                        kingUpdatedPiece(piece, kept[i], queensideCastle, kingsideCastle)]
    IN  Append(newPieces, King(piece.color, newPosition.column, newPosition.row, TRUE))

KingMove(piece, newPosition, b) ==
    LET queensideCastle ==
            piece.firstMove /\ newPosition = Coordinate(2, piece.position.row)
        kingsideCastle ==
            piece.firstMove /\ newPosition = Coordinate(6, piece.position.row)
        kept == SelectSeq(b, LAMBDA oldPiece :
                    kingKeeps(piece, newPosition, oldPiece, queensideCastle, kingsideCastle))
        newPieces == [i \in 1..Len(kept) |->
                        kingUpdatedPiece(piece, kept[i], queensideCastle, kingsideCastle)]
    IN  Append(newPieces, King(piece.color, newPosition.column, newPosition.row, FALSE))

RECURSIVE inCheck(_, _)

\* King.getOpenMoves, the castling block for one side: corner is the rook's
\* corner, columns the columns the loop walks, target the column pushed.
canCastle(piece, b, corner, columns) ==
    /\ ~isEmpty(b, corner)
    /\ getPieceAt(b, corner).kind = "Rook"
    /\ getPieceAt(b, corner).firstMove
    /\ \A column \in columns :
          LET middlePosition == Coordinate(column, piece.position.row)
          IN  /\ isEmpty(b, middlePosition)
              /\ ~inCheck(piece.color, KingMove(piece, middlePosition, b))

KingGetOpenMoves(piece, b, castle) ==
    LET steps == {newPosition \in
                    {Coordinate(piece.position.column + d[1], piece.position.row + d[2]) :
                        d \in QueenDirections} : stepIsOpen(piece, b, newPosition)}
        queensideCoordinate ==
            IF piece.color = "Black" THEN Coordinate(0, 0) ELSE Coordinate(0, 7)
        kingsideCoordinate ==
            IF piece.color = "Black" THEN Coordinate(7, 0) ELSE Coordinate(7, 7)
    IN  steps
        \cup (IF castle /\ piece.firstMove /\ canCastle(piece, b, queensideCoordinate, 2..4)
              THEN {Coordinate(2, piece.position.row)} ELSE {})
        \cup (IF castle /\ piece.firstMove /\ canCastle(piece, b, kingsideCoordinate, 4..6)
              THEN {Coordinate(6, piece.position.row)} ELSE {})

(***************************************************************************)
(* Dispatch on the class of the piece.                                     *)
(***************************************************************************)
getOpenMoves(piece, b, castle) ==
    CASE piece.kind = "Pawn" -> PawnGetOpenMoves(piece, b)
      [] piece.kind = "Bishop" -> BishopGetOpenMoves(piece, b)
      [] piece.kind = "Rook" -> RookGetOpenMoves(piece, b)
      [] piece.kind = "Queen" -> QueenGetOpenMoves(piece, b)
      [] piece.kind = "King" -> KingGetOpenMoves(piece, b, castle)
      [] piece.kind = "Knight" -> KnightGetOpenMoves(piece, b)

move(piece, newPosition, b) ==
    CASE piece.kind = "Pawn" -> PawnMove(piece, newPosition, b)
      [] piece.kind = "Bishop" -> BishopMove(piece, newPosition, b)
      [] piece.kind = "Rook" -> RookMove(piece, newPosition, b)
      [] piece.kind = "Queen" -> QueenMove(piece, newPosition, b)
      [] piece.kind = "King" -> KingMove(piece, newPosition, b)
      [] piece.kind = "Knight" -> KnightMove(piece, newPosition, b)

(***************************************************************************)
(* inCheck, getAvailableMoves, inCheckmate, inStalemate                    *)
(***************************************************************************)
\* inCheck throws "Must have a king" when the board holds no king of the color.
noKingFound(c, b) ==
    \A i \in 1..Len(b) : ~(b[i].kind = "King" /\ b[i].color = c)

\* The first loop of inCheck starts from Coordinate(-1, -1) and keeps the
\* position of the last king of the color it meets.
kingPosition(c, b) ==
    IF noKingFound(c, b) THEN Coordinate(-1, -1)
    ELSE LET last == CHOOSE i \in 1..Len(b) :
                        /\ b[i].kind = "King" /\ b[i].color = c
                        /\ \A j \in (i + 1)..Len(b) :
                              ~(b[j].kind = "King" /\ b[j].color = c)
         IN  b[last].position

\* Mutant: the positions are compared by identity, and never found equal.
inCheckNever(c, b) == FALSE

inCheck(c, b) ==
    LET king == kingPosition(c, b)
    IN  \E i \in 1..Len(b) :
            /\ b[i].color # c
            /\ king \in getOpenMoves(b[i], b, FALSE)

\* Mutant: the throw of "Must have a king" is missing.
inCheckThrowsPawnOnly(c, b) ==
    \E i \in 1..Len(b) :
        /\ b[i].color # c /\ b[i].kind = "Pawn" /\ PawnGetOpenMovesThrows(b[i], b)
        /\ \A j \in 1..(i - 1) :
              ~(b[j].color # c /\ kingPosition(c, b) \in getOpenMoves(b[j], b, FALSE))

\* inCheck throws "Must have a king", and lets through what the getOpenMoves
\* of an opposing pawn throws when the loop reaches that pawn before it
\* finds a piece that attacks the king.
inCheckThrows(c, b) ==
    \/ noKingFound(c, b)
    \/ \E i \in 1..Len(b) :
          /\ b[i].color # c /\ b[i].kind = "Pawn" /\ PawnGetOpenMovesThrows(b[i], b)
          /\ \A j \in 1..(i - 1) :
                ~(b[j].color # c /\ kingPosition(c, b) \in getOpenMoves(b[j], b, FALSE))

\* King.getOpenMoves enters a castling loop, each turn of which calls inCheck
\* on the board after the king's move to a column of the loop.
castlingColumns(piece, b, castle) ==
    LET row == IF piece.color = "Black" THEN 0 ELSE 7
        loops(corner) ==
            /\ ~isEmpty(b, Coordinate(corner, row))
            /\ getPieceAt(b, Coordinate(corner, row)).kind = "Rook"
            /\ getPieceAt(b, Coordinate(corner, row)).firstMove
    IN  IF piece.kind = "King" /\ castle /\ piece.firstMove
        THEN (IF loops(0) THEN 2..4 ELSE {}) \cup (IF loops(7) THEN 4..6 ELSE {})
        ELSE {}

\* King.getOpenMoves lets through what inCheck throws in a castling loop.
KingGetOpenMovesThrows(piece, b, castle) ==
    \E column \in castlingColumns(piece, b, castle) :
        inCheckThrows(piece.color, KingMove(piece, Coordinate(column, piece.position.row), b))

getOpenMovesThrows(piece, b, castle) ==
    \/ piece.kind = "Pawn" /\ PawnGetOpenMovesThrows(piece, b)
    \/ piece.kind = "King" /\ KingGetOpenMovesThrows(piece, b, castle)

\* getAvailableMoves lets through what the piece's getOpenMoves throws, what
\* move throws on an open move that is out of bounds, and what inCheck
\* throws on the board after an open move.  With no open move the loop
\* body never runs and nothing is thrown.
getAvailableMovesThrows(piece, b) ==
    \/ getOpenMovesThrows(piece, b, TRUE)
    \/ \E openMove \in getOpenMoves(piece, b, TRUE) :
          \/ moveThrows(openMove)
          \/ inCheckThrows(piece.color, move(piece, openMove, b))

\* Mutant: the open moves, not filtered by inCheck.
getAvailableMovesUnfiltered(piece, b) ==
    getOpenMoves(piece, b, TRUE)

\* Mutant: inCheck is asked about the other color.
getAvailableMovesOtherColor(piece, b) ==
    {openMove \in getOpenMoves(piece, b, TRUE) :
        ~inCheck(IF piece.color = "White" THEN "Black" ELSE "White",
                 move(piece, openMove, b))}

\* Mutant: inCheck is asked about the board before the move.
getAvailableMovesBoardBefore(piece, b) ==
    {openMove \in getOpenMoves(piece, b, TRUE) : ~inCheck(piece.color, b)}

getAvailableMoves(piece, b) ==
    {openMove \in getOpenMoves(piece, b, TRUE) :
        ~inCheck(piece.color, move(piece, openMove, b))}

\* Mutant: the loop does not test the color of the piece.
inCheckmateAnyPiece(c, b) ==
    IF inCheck(c, b)
    THEN \A i \in 1..Len(b) : getAvailableMoves(b[i], b) = {}
    ELSE FALSE

inCheckmate(c, b) ==
    IF inCheck(c, b)
    THEN \A i \in 1..Len(b) :
            b[i].color = c => getAvailableMoves(b[i], b) = {}
    ELSE FALSE

\* Mutant: the loop does not test the color of the piece.
inStalemateAnyPiece(c, b) ==
    IF ~inCheck(c, b)
    THEN \A i \in 1..Len(b) : getAvailableMoves(b[i], b) = {}
    ELSE FALSE

\* inCheckmate and inStalemate call inCheck first, and then getAvailableMoves
\* on the pieces of the color in the order of the array, up to the first
\* piece that has an available move.
loopThrows(c, b) ==
    \E i \in 1..Len(b) :
        /\ b[i].color = c /\ getAvailableMovesThrows(b[i], b)
        /\ \A j \in 1..(i - 1) :
              b[j].color = c =>
                  getAvailableMovesThrows(b[j], b) \/ getAvailableMoves(b[j], b) = {}

inCheckmateThrows(c, b) ==
    inCheckThrows(c, b) \/ (inCheck(c, b) /\ loopThrows(c, b))

inStalemateThrows(c, b) ==
    inCheckThrows(c, b) \/ (~inCheck(c, b) /\ loopThrows(c, b))

\* Mutant: the test of inCheck is missing.
inStalemateUnguarded(c, b) ==
    \A i \in 1..Len(b) :
        b[i].color = c => getAvailableMoves(b[i], b) = {}

inStalemate(c, b) ==
    IF ~inCheck(c, b)
    THEN \A i \in 1..Len(b) :
            b[i].color = c => getAvailableMoves(b[i], b) = {}
    ELSE FALSE

(***************************************************************************)
(* The calls the five operations make on each other, as the depth of the   *)
(* deepest chain of calls one call starts (the call itself counts one).    *)
(***************************************************************************)
Max(S) == CHOOSE x \in S : \A y \in S : y <= x

\* Mutant: inCheck asks for the open moves with castling enabled.
inCheckCastleEnabled == TRUE

\* The castle argument inCheck passes to getOpenMoves.
inCheckCastle == FALSE

RECURSIVE inCheckDepth(_, _)

getOpenMovesDepth(piece, b, castle) ==
    1 + Max({0} \cup {inCheckDepth(piece.color,
                                   KingMove(piece, Coordinate(column, piece.position.row), b)) :
                        column \in castlingColumns(piece, b, castle)})

\* inCheck calls getOpenMoves on the opposing pieces in the order of the
\* array, up to the first whose open moves hold the position of the king.
inCheckDepth(c, b) ==
    IF noKingFound(c, b) THEN 1
    ELSE 1 + Max({0} \cup
                 {getOpenMovesDepth(b[i], b, inCheckCastle) :
                    i \in {k \in 1..Len(b) :
                             /\ b[k].color # c
                             /\ \A j \in 1..(k - 1) :
                                   ~(/\ b[j].color # c
                                     /\ kingPosition(c, b) \in getOpenMoves(b[j], b, FALSE))}})

getAvailableMovesDepth(piece, b) ==
    1 + Max({getOpenMovesDepth(piece, b, TRUE)} \cup
            {inCheckDepth(piece.color, move(piece, openMove, b)) :
                openMove \in {m \in getOpenMoves(piece, b, TRUE) : ~moveThrows(m)}})

\* inCheckmate and inStalemate call inCheck and then getAvailableMoves on
\* pieces of the color.
gameEndDepth(c, b) ==
    1 + Max({inCheckDepth(c, b)} \cup
            {getAvailableMovesDepth(b[i], b) : i \in {k \in 1..Len(b) : b[k].color = c}})

(***************************************************************************)
(* The game component: its state and handleClick.                          *)
(***************************************************************************)
\* Mutant: the white king and the white queen stand on each other's square.
startingBoardKingOnQueen ==
    <<Rook("Black", 0, 0, TRUE), Knight("Black", 1, 0), Bishop("Black", 2, 0),
      Queen("Black", 3, 0), King("Black", 4, 0, TRUE), Bishop("Black", 5, 0),
      Knight("Black", 6, 0), Rook("Black", 7, 0, TRUE)>>
    \o [i \in 1..8 |-> Pawn("Black", i - 1, 1, TRUE, FALSE)]
    \o <<Rook("White", 0, 7, TRUE), Knight("White", 1, 7), Bishop("White", 2, 7),
         Queen("White", 4, 7), King("White", 3, 7, TRUE), Bishop("White", 5, 7),
         Knight("White", 6, 7), Rook("White", 7, 7, TRUE)>>
    \o [i \in 1..8 |-> Pawn("White", i - 1, 6, TRUE, FALSE)]

\* The board Game() builds: the standard layout, in the order of the array.
startingBoard ==
    <<Rook("Black", 0, 0, TRUE), Knight("Black", 1, 0), Bishop("Black", 2, 0),
      Queen("Black", 3, 0), King("Black", 4, 0, TRUE), Bishop("Black", 5, 0),
      Knight("Black", 6, 0), Rook("Black", 7, 0, TRUE)>>
    \o [i \in 1..8 |-> Pawn("Black", i - 1, 1, TRUE, FALSE)]
    \o <<Rook("White", 0, 7, TRUE), Knight("White", 1, 7), Bishop("White", 2, 7),
         Queen("White", 3, 7), King("White", 4, 7, TRUE), Bishop("White", 5, 7),
         Knight("White", 6, 7), Rook("White", 7, 7, TRUE)>>
    \o [i \in 1..8 |-> Pawn("White", i - 1, 6, TRUE, FALSE)]

otherColor(c) == IF c = "White" THEN "Black" ELSE "White"

calculateWinner(b, c) ==
    IF inStalemate(c, b) THEN "Tie"
    ELSE IF inCheckmate(c, b) THEN otherColor(c)
    ELSE "null"

\* Positions of games in progress, each with the color to move: the standard
\* layout after exchanges.  Kings, rooks and pawns carry firstMove exactly
\* when they still stand where the layout puts them, no pawn is flagged, and
\* the side that has just moved is not in check.
MidGames ==
    { \* both sides may still castle: nothing between king and rook
      [board |-> <<King("Black", 4, 0, TRUE), Rook("Black", 0, 0, TRUE),
                   Pawn("Black", 0, 1, TRUE, FALSE),
                   King("White", 4, 7, TRUE), Rook("White", 7, 7, TRUE),
                   Pawn("White", 7, 6, TRUE, FALSE)>>,
       color |-> "White"],
      \* a two-square advance that lands beside an opposing pawn
      [board |-> <<King("Black", 6, 0, FALSE), Pawn("Black", 3, 4, FALSE, FALSE),
                   King("White", 1, 7, FALSE), Pawn("White", 4, 6, TRUE, FALSE)>>,
       color |-> "White"],
      [board |-> <<King("Black", 6, 0, FALSE), Pawn("Black", 6, 1, TRUE, FALSE),
                   King("White", 1, 7, FALSE), Pawn("White", 5, 3, FALSE, FALSE)>>,
       color |-> "Black"],
      \* pawns one step from the farthest row, one with a capture
      [board |-> <<King("Black", 7, 2, FALSE), Pawn("Black", 2, 6, FALSE, FALSE),
                   Knight("Black", 0, 0),
                   King("White", 4, 5, FALSE), Pawn("White", 1, 1, FALSE, FALSE),
                   Bishop("White", 3, 7)>>,
       color |-> "White"],
      \* a pinned knight, and a mate one rook move away
      [board |-> <<King("Black", 0, 0, FALSE), Rook("Black", 0, 7, FALSE),
                   King("White", 0, 2, FALSE), Knight("White", 0, 4),
                   Rook("White", 7, 5, FALSE)>>,
       color |-> "White"],
      \* a two-square advance answered by a knight, a bishop, a queen or a king
      [board |-> <<Knight("Black", 1, 0), Bishop("Black", 2, 0), Queen("Black", 3, 0),
                   King("Black", 4, 0, TRUE),
                   King("White", 0, 7, FALSE), Pawn("White", 4, 6, TRUE, FALSE)>>,
       color |-> "White"],
      \* a stalemate one pawn move away
      [board |-> <<King("Black", 0, 0, FALSE), King("White", 1, 2, FALSE),
                   Pawn("White", 0, 2, FALSE, FALSE)>>,
       color |-> "White"] }

MaxPlies == 2

Init ==
    /\ \E g \in MidGames : board = g.board /\ color = g.color
    /\ selectedPiece = null
    /\ plies = 0
    /\ lastMove = null
    /\ kingMoved = {c \in {"White", "Black"} :
                        \E i \in 1..Len(board) :
                            board[i].kind = "King" /\ board[i].color = c /\ ~board[i].firstMove}
    /\ call = null

\* Mutant: the color to move stays as it is.
PlayKeepsColor(position, availableMoves) ==
    /\ plies < MaxPlies
    /\ position \in availableMoves
    /\ board' = move(selectedPiece, position, board)
    /\ selectedPiece' = null
    /\ color' = color
    /\ plies' = plies + 1
    /\ lastMove' = [piece |-> selectedPiece, newPosition |-> position, board |-> board]
    /\ kingMoved' = IF selectedPiece.kind = "King" THEN kingMoved \cup {color} ELSE kingMoved
    /\ UNCHANGED call

\* Mutant: the selection is kept.
PlayKeepsSelection(position, availableMoves) ==
    /\ plies < MaxPlies
    /\ position \in availableMoves
    /\ board' = move(selectedPiece, position, board)
    /\ selectedPiece' = selectedPiece
    /\ color' = otherColor(color)
    /\ plies' = plies + 1
    /\ lastMove' = [piece |-> selectedPiece, newPosition |-> position, board |-> board]
    /\ kingMoved' = IF selectedPiece.kind = "King" THEN kingMoved \cup {color} ELSE kingMoved
    /\ UNCHANGED call

\* Mutant: the clicked square is compared with the open moves of the
\* selected piece.
PlayOpenMove(position, availableMoves) ==
    /\ plies < MaxPlies
    /\ selectedPiece # null
    /\ position \in getOpenMoves(selectedPiece, board, TRUE)
    /\ board' = move(selectedPiece, position, board)
    /\ selectedPiece' = null
    /\ color' = otherColor(color)
    /\ plies' = plies + 1
    /\ lastMove' = [piece |-> selectedPiece, newPosition |-> position, board |-> board]
    /\ kingMoved' = IF selectedPiece.kind = "King" THEN kingMoved \cup {color} ELSE kingMoved
    /\ UNCHANGED call

\* handleClick, lines 258-271: the clicked square is an available move of
\* the selected piece (availableMoves: its available moves, {} when null).
Play(position, availableMoves) ==
    /\ plies < MaxPlies
    /\ position \in availableMoves
    /\ board' = move(selectedPiece, position, board)
    /\ selectedPiece' = null
    /\ color' = otherColor(color)
    /\ plies' = plies + 1
    /\ lastMove' = [piece |-> selectedPiece, newPosition |-> position, board |-> board]
    /\ kingMoved' = IF selectedPiece.kind = "King" THEN kingMoved \cup {color} ELSE kingMoved
    /\ UNCHANGED call

\* handleClick, lines 274-284: the selected piece is clicked again.
Deselect(position, availableMoves) ==
    /\ position \notin availableMoves
    /\ ~isEmpty(board, position)
    /\ getPieceAt(board, position) = selectedPiece
    /\ selectedPiece' = null
    /\ UNCHANGED <<board, color, plies, lastMove, kingMoved, call>>

\* Mutant: a piece of either color can be selected.
SelectAnyColor(position, availableMoves) ==
    /\ position \notin availableMoves
    /\ ~isEmpty(board, position)
    /\ getPieceAt(board, position) # selectedPiece
    /\ selectedPiece' = getPieceAt(board, position)
    /\ UNCHANGED <<board, color, plies, lastMove, kingMoved, call>>

\* handleClick, lines 286-292: a piece of the color to move is clicked.
Select(position, availableMoves) ==
    /\ position \notin availableMoves
    /\ ~isEmpty(board, position)
    /\ getPieceAt(board, position) # selectedPiece
    /\ getPieceAt(board, position).color = color
    /\ selectedPiece' = getPieceAt(board, position)
    /\ UNCHANGED <<board, color, plies, lastMove, kingMoved, call>>

\* handleClick: every other click calls nothing.
Ignore(position, availableMoves) ==
    /\ position \notin availableMoves
    /\ \/ isEmpty(board, position)
       \/ /\ ~isEmpty(board, position)
          /\ getPieceAt(board, position) # selectedPiece
          /\ getPieceAt(board, position).color # color
    /\ UNCHANGED vars

\* handleClick: after the game has ended a click changes nothing.
Ended(winner) ==
    /\ winner # "null"
    /\ UNCHANGED vars

\* Mutant: the test of calculateWinner is missing.
handleClickAfterEnd(position, winner, availableMoves) ==
    \/ Play(position, availableMoves)
    \/ Deselect(position, availableMoves)
    \/ Select(position, availableMoves)
    \/ Ignore(position, availableMoves)

\* handleClick(row, column), given the winner calculateWinner returns and
\* the available moves of the selected piece ({} when nothing is selected).
handleClick(position, winner, availableMoves) ==
    \/ winner = "null" /\ Play(position, availableMoves)
    \/ winner = "null" /\ Deselect(position, availableMoves)
    \/ winner = "null" /\ Select(position, availableMoves)
    \/ winner = "null" /\ Ignore(position, availableMoves)
    \/ Ended(winner)

\* A click on any square.  The winner and the available moves do not depend
\* on the square, and are computed once for the state.
Next ==
    \E winner \in {calculateWinner(board, color)} :
    \E availableMoves \in
            {IF selectedPiece # null THEN getAvailableMoves(selectedPiece, board) ELSE {}} :
    \E position \in AllCoordinates :
        handleClick(position, winner, availableMoves)

Spec == Init /\ [][Next]_vars

(***************************************************************************)
(* The game from the board Game() builds, with the clicks on the squares   *)
(* of the four middle columns.                                             *)
(***************************************************************************)
InitStart ==
    /\ board = startingBoard
    /\ selectedPiece = null
    /\ color = "White"
    /\ plies = 0
    /\ lastMove = null
    /\ kingMoved = {}
    /\ call = null

\* The squares clicked in this game.
StartSquares == {c \in AllCoordinates : c.column \in 2..5}

NextStart ==
    \E winner \in {calculateWinner(board, color)} :
    \E availableMoves \in
            {IF selectedPiece # null THEN getAvailableMoves(selectedPiece, board) ELSE {}} :
    \E position \in StartSquares :
        handleClick(position, winner, availableMoves)

SpecStart == InitStart /\ [][NextStart]_vars

(***************************************************************************)
(* The move methods as functions of their arguments: one unconditional     *)
(* call of piece.move(newPosition, board) on a board of InputBoards, for   *)
(* every piece of the board and every in-bounds newPosition.               *)
(***************************************************************************)
\* Every input board holds the two kings on their home squares, unmoved.
InputBase == <<King("White", 4, 7, TRUE), King("Black", 4, 0, TRUE)>>

\* The other pieces of an input board are drawn from these: unmoved rooks on
\* their corners, pawns that have advanced (two of them flagged by the
\* two-square advance that brought them beside an opposing pawn), a pawn one
\* step from the farthest row, and pieces that attack or block a castling
\* path.
InputPool ==
    <<Rook("White", 0, 7, TRUE), Rook("White", 7, 7, TRUE), Rook("Black", 7, 0, TRUE),
      Pawn("White", 3, 3, FALSE, FALSE), Pawn("Black", 4, 3, FALSE, TRUE),
      Pawn("Black", 2, 4, FALSE, FALSE), Pawn("White", 1, 4, FALSE, TRUE),
      Pawn("White", 6, 1, FALSE, FALSE), Bishop("Black", 2, 5), Knight("White", 1, 7),
      Queen("Black", 6, 3)>>

MaxExtra == 2

\* The pieces of the pool at the indices of I, in the order of the pool.
poolBoard(I) ==
    InputBase \o SelectSeq([i \in 1..Len(InputPool) |-> [index |-> i, piece |-> InputPool[i]]],
                           LAMBDA e : e.index \in I)

InputBoards ==
    { [i \in 1..Len(poolBoard(I)) |->
          IF i <= Len(InputBase) THEN poolBoard(I)[i] ELSE poolBoard(I)[i].piece] :
        I \in {J \in SUBSET (1..Len(InputPool)) :
                 /\ Cardinality(J) <= MaxExtra
                 /\ Cardinality({j \in J : InputPool[j].enPassant}) <= 1} }

InitMove ==
    /\ board \in InputBoards
    /\ color = "White"
    /\ selectedPiece = null
    /\ plies = 0
    /\ lastMove = null
    /\ kingMoved = {}
    /\ call = null

\* One call piece.move(newPosition, board) for the piece at index i.
Moved(i, newPosition) ==
    /\ lastMove = null
    /\ board' = move(board[i], newPosition, board)
    /\ lastMove' = [piece |-> board[i], newPosition |-> newPosition, board |-> board]
    /\ plies' = plies + 1
    /\ kingMoved' = IF board[i].kind = "King" THEN kingMoved \cup {board[i].color} ELSE kingMoved
    /\ UNCHANGED <<color, selectedPiece, call>>

MovePawn ==
    \E i \in 1..Len(board), newPosition \in AllCoordinates :
        board[i].kind = "Pawn" /\ Moved(i, newPosition)

MoveBishop ==
    \E i \in 1..Len(board), newPosition \in AllCoordinates :
        board[i].kind = "Bishop" /\ Moved(i, newPosition)

MoveRook ==
    \E i \in 1..Len(board), newPosition \in AllCoordinates :
        board[i].kind = "Rook" /\ Moved(i, newPosition)

MoveQueen ==
    \E i \in 1..Len(board), newPosition \in AllCoordinates :
        board[i].kind = "Queen" /\ Moved(i, newPosition)

MoveKing ==
    \E i \in 1..Len(board), newPosition \in AllCoordinates :
        board[i].kind = "King" /\ Moved(i, newPosition)

MoveKnight ==
    \E i \in 1..Len(board), newPosition \in AllCoordinates :
        board[i].kind = "Knight" /\ Moved(i, newPosition)

NextMove ==
    MovePawn \/ MoveBishop \/ MoveRook \/ MoveQueen \/ MoveKing \/ MoveKnight

SpecMove == InitMove /\ [][NextMove]_vars

(***************************************************************************)
(* The exported operations as they are called from outside: one call on a  *)
(* board of CallBoards, with coordinates on the board and around it, and   *)
(* its outcome, a returned value or a thrown error.                        *)
(***************************************************************************)
\* new Pawn(color, column, row): firstMove defaults to true, enPassant to false.
newPawn(c, column, row) == Pawn(c, column, row, TRUE, FALSE)

\* new King(color, column, row) and new Rook(color, column, row): firstMove
\* defaults to true.
newKing(c, column, row) == King(c, column, row, TRUE)

newRook(c, column, row) == Rook(c, column, row, TRUE)

\* How far off the board the coordinates of the calls reach.
Margin == 1

CallCoordinates ==
    {Coordinate(column, row) : column \in (0 - Margin)..(BoardSize - 1 + Margin),
                               row \in (0 - Margin)..(BoardSize - 1 + Margin)}

\* The boards the calls are made on, built the way the tests build theirs.
CallBoards ==
    \* a pawn alone, on every row
    {<<newPawn(c, 1, row)>> : c \in {"White", "Black"}, row \in 0..(BoardSize - 1)}
    \cup
    { \* the board of the getPieces test: no black king
      <<newPawn("White", 1, 6), newRook("Black", 0, 0), newKing("White", 5, 7)>>,
      \* the boards of the inCheck tests
      <<newKing("White", 5, 0), newKing("Black", 5, 7), newRook("Black", 7, 0)>>,
      <<newKing("White", 5, 0), newKing("Black", 5, 7), Knight("White", 4, 5)>>,
      \* a piece of every class
      <<newKing("White", 4, 7), newKing("Black", 4, 0), Queen("White", 3, 7),
        Bishop("Black", 2, 0), Knight("White", 1, 7), newRook("Black", 0, 0),
        newPawn("White", 4, 6)>>,
      \* two pawns on the farthest row of one of them, one flagged
      <<King("White", 7, 7, FALSE), King("Black", 7, 2, FALSE),
        Pawn("White", 3, 0, FALSE, FALSE), Pawn("Black", 2, 0, FALSE, TRUE)>>,
      \* two pawns that block each other, and no king
      <<newPawn("White", 0, 6), newPawn("Black", 0, 5)>>,
      \* a king built off its home square, as the stalemate test builds one,
      \* with a rook on the corner of its row and a knight beside the rook
      <<newKing("White", 5, 7), newKing("Black", 4, 0), newRook("White", 0, 7),
        Knight("White", 1, 7)>> }

InitCalls ==
    /\ board \in CallBoards
    /\ color = "White"
    /\ selectedPiece = null
    /\ plies = 0
    /\ lastMove = null
    /\ kingMoved = {}
    /\ call = null

\* The outcome of a call: what it returned, or that it threw.
returned(op, args, value) ==
    [op |-> op, args |-> args, board |-> board, threw |-> FALSE, result |-> <<value>>]

threw(op, args) ==
    [op |-> op, args |-> args, board |-> board, threw |-> TRUE, result |-> <<>>]

CallIsEmpty ==
    \E coordinate \in CallCoordinates :
        /\ call = null
        /\ call' = IF isEmptyThrows(coordinate)
                   THEN threw("isEmpty", <<coordinate>>)
                   ELSE returned("isEmpty", <<coordinate>>, isEmpty(board, coordinate))
        /\ UNCHANGED <<board, color, selectedPiece, plies, lastMove, kingMoved>>

CallGetPieceAt ==
    \E coordinate \in CallCoordinates :
        /\ call = null
        /\ call' = IF getPieceAtThrows(board, coordinate)
                   THEN threw("getPieceAt", <<coordinate>>)
                   ELSE returned("getPieceAt", <<coordinate>>, getPieceAt(board, coordinate))
        /\ UNCHANGED <<board, color, selectedPiece, plies, lastMove, kingMoved>>

\* Mutant: getPieces returns the array of the board itself.
getPiecesArrayOwn == "pieces"

\* The array getPieces returns: this.pieces.slice() is a copy, a different
\* array from the field pieces of the board.
getPiecesArray == "copy"

CallGetPieces ==
    /\ call = null
    /\ call' = returned("getPieces", <<getPiecesArray>>, getPieces(board))
    /\ UNCHANGED <<board, color, selectedPiece, plies, lastMove, kingMoved>>

\* The caller removes the element at index j from the array getPieces
\* returned.  The board changes with it exactly when that array is the
\* board's own.
ChangeReturnedArray ==
    \E j \in 1..Len(board) :
        /\ call # null
        /\ call.op = "getPieces"
        /\ Len(call.result[1]) = Len(call.board)
        /\ LET changed == SubSeq(call.result[1], 1, j - 1)
                           \o SubSeq(call.result[1], j + 1, Len(call.result[1]))
           IN  /\ call' = [call EXCEPT !.result = <<changed>>]
               /\ board' = IF call.args[1] = "pieces" THEN changed ELSE board
        /\ UNCHANGED <<color, selectedPiece, plies, lastMove, kingMoved>>

CallGetOpenMoves ==
    \E i \in 1..Len(board), castle \in BOOLEAN :
        /\ call = null
        /\ call' = IF getOpenMovesThrows(board[i], board, castle)
                   THEN threw("getOpenMoves", <<board[i], castle>>)
                   ELSE returned("getOpenMoves", <<board[i], castle>>,
                                 getOpenMoves(board[i], board, castle))
        /\ UNCHANGED <<board, color, selectedPiece, plies, lastMove, kingMoved>>

\* piece.move(newPosition, board): the method reads board.getPieces() and
\* pushes onto an array of its own, from which it builds the board it returns.
CallMove ==
    \E i \in 1..Len(board), newPosition \in CallCoordinates :
        /\ call = null
        /\ call' = IF moveThrows(newPosition)
                   THEN threw("move", <<board[i], newPosition>>)
                   ELSE returned("move", <<board[i], newPosition>>,
                                 move(board[i], newPosition, board))
        /\ UNCHANGED <<board, color, selectedPiece, plies, lastMove, kingMoved>>

CallGetAvailableMoves ==
    \E i \in 1..Len(board) :
        /\ call = null
        /\ call' = IF getAvailableMovesThrows(board[i], board)
                   THEN threw("getAvailableMoves", <<board[i]>>)
                   ELSE returned("getAvailableMoves", <<board[i]>>,
                                 getAvailableMoves(board[i], board))
        /\ UNCHANGED <<board, color, selectedPiece, plies, lastMove, kingMoved>>

CallInCheck ==
    \E c \in {"White", "Black"} :
        /\ call = null
        /\ call' = IF inCheckThrows(c, board)
                   THEN threw("inCheck", <<c>>)
                   ELSE returned("inCheck", <<c>>, inCheck(c, board))
        /\ UNCHANGED <<board, color, selectedPiece, plies, lastMove, kingMoved>>

CallInCheckmate ==
    \E c \in {"White", "Black"} :
        /\ call = null
        /\ call' = IF inCheckmateThrows(c, board)
                   THEN threw("inCheckmate", <<c>>)
                   ELSE returned("inCheckmate", <<c>>, inCheckmate(c, board))
        /\ UNCHANGED <<board, color, selectedPiece, plies, lastMove, kingMoved>>

CallInStalemate ==
    \E c \in {"White", "Black"} :
        /\ call = null
        /\ call' = IF inStalemateThrows(c, board)
                   THEN threw("inStalemate", <<c>>)
                   ELSE returned("inStalemate", <<c>>, inStalemate(c, board))
        /\ UNCHANGED <<board, color, selectedPiece, plies, lastMove, kingMoved>>

NextCalls ==
    \/ CallIsEmpty
    \/ CallGetPieceAt
    \/ CallGetPieces
    \/ ChangeReturnedArray
    \/ CallGetOpenMoves
    \/ CallMove
    \/ CallGetAvailableMoves
    \/ CallInCheck
    \/ CallInCheckmate
    \/ CallInStalemate

SpecCalls == InitCalls /\ [][NextCalls]_vars

(***************************************************************************)
(* Properties.  The state formulas speak of every piece of the board of    *)
(* the current state; lastMove names the move that produced it.            *)
(***************************************************************************)
Colors == {"White", "Black"}

\* Some piece of the other color has a king of color c among its open moves
\* (castling aside): what the specification calls "in check".
kingAttacked(c, b) ==
    \E k \in 1..Len(b), i \in 1..Len(b) :
        /\ b[k].kind = "King" /\ b[k].color = c
        /\ b[i].color # c
        /\ b[k].position \in getOpenMoves(b[i], b, FALSE)

\* The calls a formula makes on the board all return.
callsReturn(c, b) ==
    /\ ~noKingFound(c, b)
    /\ \A i \in 1..Len(b) : ~getAvailableMovesThrows(b[i], b)

\* C1: every position getAvailableMoves returns for a piece leaves, once the
\* piece has moved there, the king of the piece's color on the board and
\* attacked by no opposing piece; this covers pinned pieces and moves made
\* while in check.
C1_AvailableMovesLeaveKingSafe ==
    \A i \in 1..Len(board) :
        ~getAvailableMovesThrows(board[i], board) =>
            \A m \in getAvailableMoves(board[i], board) :
                /\ ~noKingFound(board[i].color, move(board[i], m, board))
                /\ ~kingAttacked(board[i].color, move(board[i], m, board))

\* C1 witness: a piece other than the king that has open moves it may make
\* and open moves it may not (it is pinned, or its king is in check).
C1_Witness ==
    \E i \in 1..Len(board) :
        /\ board[i].kind # "King"
        /\ ~getAvailableMovesThrows(board[i], board)
        /\ getAvailableMoves(board[i], board) # {}
        /\ getAvailableMoves(board[i], board) # getOpenMoves(board[i], board, TRUE)

\* No piece of color c has an available move.
noAvailableMove(c, b) ==
    \A i \in 1..Len(b) :
        b[i].color = c => getAvailableMoves(b[i], b) = {}

\* C3: inCheckmate(color, board) is true exactly when inCheck(color, board)
\* is true and no piece of that color has an available move.
C3_CheckmateIffCheckAndNoMove ==
    \A c \in Colors :
        callsReturn(c, board) =>
            (inCheckmate(c, board) <=> (inCheck(c, board) /\ noAvailableMove(c, board)))

\* C3 witness: the color to move has been checkmated by the last move.
C3_Witness ==
    /\ lastMove # null
    /\ callsReturn(color, board)
    /\ inCheckmate(color, board)

\* C4: inStalemate(color, board) is true exactly when inCheck(color, board)
\* is false and no piece of that color has an available move.
C4_StalemateIffNoCheckAndNoMove ==
    \A c \in Colors :
        callsReturn(c, board) =>
            (inStalemate(c, board) <=> (~inCheck(c, board) /\ noAvailableMove(c, board)))

\* C4 witness: the color to move has been stalemated by the last move.
C4_Witness ==
    /\ lastMove # null
    /\ callsReturn(color, board)
    /\ inStalemate(color, board)

\* C5: on a board with a king of the color, inCheckmate and inStalemate are
\* never both true.
C5_CheckmateExcludesStalemate ==
    \A c \in Colors :
        callsReturn(c, board) => ~(inCheckmate(c, board) /\ inStalemate(c, board))

\* C5 witness: a color without an available move, for which exactly one of
\* the two is true.
C5_Witness ==
    \E c \in Colors :
        /\ callsReturn(c, board)
        /\ noAvailableMove(c, board)
        /\ inCheckmate(c, board) # inStalemate(c, board)

\* The back row of a color, where its king and rooks start.
homeRow(c) == IF c = "White" THEN 7 ELSE 0

\* The board with the piece at index i standing on square sq instead.
relocated(b, i, sq) == [b EXCEPT ![i].position = sq]

\* The unmoved king at index k stands on its home square, an unmoved rook of
\* its color stands on the corner of column rookColumn, the squares strictly
\* between them are empty, and the king is attacked neither where it
\* stands, nor on the square it crosses, nor on the square it lands on.
mayCastle(b, k, rookColumn) ==
    LET king == b[k]
        row == homeRow(king.color)
        between == IF rookColumn = 0 THEN 1..3 ELSE 5..6
        path == IF rookColumn = 0 THEN 2..4 ELSE 4..6
    IN  /\ king.kind = "King" /\ king.firstMove
        /\ king.position = Coordinate(4, row)
        /\ \E r \in 1..Len(b) :
              /\ b[r].kind = "Rook" /\ b[r].firstMove /\ b[r].color = king.color
              /\ b[r].position = Coordinate(rookColumn, row)
        /\ \A column \in between : isEmpty(b, Coordinate(column, row))
        /\ \A column \in path :
              ~kingAttacked(king.color, relocated(b, k, Coordinate(column, row)))

\* C2 (as claimed): whenever an unmoved king on its home square may castle
\* with the rook of a corner, King.getOpenMoves(board, true) contains the
\* castling destination, column 2 for the rook of column 0 and column 6 for
\* the rook of column 7.
C2_CastlingOffered ==
    \A k \in 1..Len(board) :
        /\ mayCastle(board, k, 0) =>
              Coordinate(2, board[k].position.row) \in KingGetOpenMoves(board[k], board, TRUE)
        /\ mayCastle(board, k, 7) =>
              Coordinate(6, board[k].position.row) \in KingGetOpenMoves(board[k], board, TRUE)

\* A pawn of the board that carries the en-passant flag.
flagged(p) == p.kind = "Pawn" /\ p.enPassant

\* The last move was a pawn's advance of two squares along its column.
lastMoveTwoSquares ==
    /\ lastMove # null
    /\ lastMove.piece.kind = "Pawn"
    /\ lastMove.newPosition.column = lastMove.piece.position.column
    /\ lastMove.newPosition.row = lastMove.piece.position.row + 2 * pawnForward(lastMove.piece)

\* C6: in a game, a pawn carries the en-passant flag only if the last move
\* was the two-square advance that brought it to its square; such an advance
\* sets the flag, every move clears it on every other pawn, so at most one
\* pawn is flagged and only for one ply.
C6_EnPassantFlagOnePly ==
    /\ \A i \in 1..Len(board) :
          flagged(board[i]) =>
              /\ lastMoveTwoSquares
              /\ lastMove.newPosition = board[i].position
              /\ lastMove.piece.color = board[i].color
    /\ lastMoveTwoSquares =>
          \E i \in 1..Len(board) :
              flagged(board[i]) /\ board[i].position = lastMove.newPosition
    /\ Cardinality({i \in 1..Len(board) : flagged(board[i])}) <= 1

\* C6 witness: the board before the last move held a flagged pawn, and the
\* last move, not made by a pawn, left that pawn on the board without its flag.
C6_Witness ==
    /\ lastMove # null
    /\ lastMove.piece.kind \in {"Knight", "Bishop", "Queen", "King", "Rook"}
    /\ \E j \in 1..Len(lastMove.board), i \in 1..Len(board) :
          /\ flagged(lastMove.board[j])
          /\ board[i] = updatedPiece(lastMove.board[j])
          /\ ~flagged(board[i])

\* The flagged opposing pawns of board b that stand on the column of the
\* destination, one row behind it in the mover's direction of travel.
passedPawns(mover, newPosition, b) ==
    {j \in 1..Len(b) :
        /\ flagged(b[j])
        /\ b[j].color # mover.color
        /\ b[j].position =
              Coordinate(newPosition.column, newPosition.row - pawnForward(mover))}

\* C7: when a pawn has moved onto an empty square behind which stands a
\* flagged opposing pawn, the board Pawn.move returned has that pawn's
\* square empty and the moving pawn on the destination, and one piece less:
\* nothing stood on the destination.
C7_EnPassantRemovesPassedPawn ==
    (/\ lastMove # null
     /\ lastMove.piece.kind = "Pawn"
     /\ isEmpty(lastMove.board, lastMove.newPosition)) =>
        \A j \in passedPawns(lastMove.piece, lastMove.newPosition, lastMove.board) :
            /\ isEmpty(board, lastMove.board[j].position)
            /\ \E i \in 1..Len(board) :
                  /\ board[i].position = lastMove.newPosition
                  /\ board[i].kind = "Pawn"
                  /\ board[i].color = lastMove.piece.color
            /\ Cardinality({i \in 1..Len(board) : board[i].position = lastMove.newPosition}) = 1
            /\ Len(board) = Len(lastMove.board) - 1

\* C7 witness: a pawn has moved diagonally onto the empty square behind a
\* flagged opposing pawn that stood beside it.
C7_Witness ==
    /\ lastMove # null
    /\ lastMove.piece.kind = "Pawn"
    /\ isEmpty(lastMove.board, lastMove.newPosition)
    /\ passedPawns(lastMove.piece, lastMove.newPosition, lastMove.board) # {}
    /\ lastMove.newPosition.row = lastMove.piece.position.row + pawnForward(lastMove.piece)
    /\ lastMove.newPosition.column \in
          {lastMove.piece.position.column - 1, lastMove.piece.position.column + 1}

\* No two pieces of the board stand on the same square.
onePiecePerSquare(b) ==
    \A i, j \in 1..Len(b) : b[i].position = b[j].position => i = j

\* A flagged pawn of the other color stands on square sq.
flaggedOpponentOn(p, b, sq) ==
    \E j \in 1..Len(b) :
        flagged(b[j]) /\ b[j].color # p.color /\ b[j].position = sq

\* C8: a pawn's open moves contain the forward-diagonal square of a side
\* whenever a flagged opposing pawn stands beside it on that side, and never
\* contain an empty forward-diagonal square when none does.
C8_EnPassantOpenMove ==
    onePiecePerSquare(board) =>
        \A i \in 1..Len(board), side \in {-1, 1} :
            (board[i].kind = "Pawn" /\ ~PawnGetOpenMovesThrows(board[i], board)) =>
                LET p == board[i]
                    beside == Coordinate(p.position.column + side, p.position.row)
                    diagonal == Coordinate(p.position.column + side,
                                           p.position.row + pawnForward(p))
                IN  /\ flaggedOpponentOn(p, board, beside) =>
                          diagonal \in getOpenMoves(p, board, TRUE)
                    /\ (/\ inBounds(diagonal)
                        /\ isEmpty(board, diagonal)
                        /\ ~flaggedOpponentOn(p, board, beside)) =>
                          diagonal \notin getOpenMoves(p, board, TRUE)

\* C8 witness: a pawn with a flagged opposing pawn beside it and an empty
\* forward-diagonal square on that side, which is among its open moves.
C8_Witness ==
    /\ onePiecePerSquare(board)
    /\ \E i \in 1..Len(board), side \in {-1, 1} :
          /\ board[i].kind = "Pawn"
          /\ flaggedOpponentOn(board[i], board,
                 Coordinate(board[i].position.column + side, board[i].position.row))
          /\ isEmpty(board, Coordinate(board[i].position.column + side,
                                       board[i].position.row + pawnForward(board[i])))
          /\ Coordinate(board[i].position.column + side,
                        board[i].position.row + pawnForward(board[i]))
                \in getOpenMoves(board[i], board, TRUE)

\* The last move took an unmoved king to column kingColumn of its own row
\* while a rook stood on column rookColumn of that row.
castled(kingColumn, rookColumn) ==
    /\ lastMove # null
    /\ lastMove.piece.kind = "King"
    /\ lastMove.piece.firstMove
    /\ lastMove.newPosition = Coordinate(kingColumn, lastMove.piece.position.row)
    /\ \E r \in 1..Len(lastMove.board) :
          /\ lastMove.board[r].kind = "Rook"
          /\ lastMove.board[r].position = Coordinate(rookColumn, lastMove.piece.position.row)

\* The board after the last move holds the king on column kingColumn of the
\* row it left and the rook that stood on column rookColumn on column
\* rookTarget, with the corner empty.
castlingDone(kingColumn, rookColumn, rookTarget) ==
    LET row == lastMove.piece.position.row
        before == lastMove.board
    IN  /\ \E i \in 1..Len(board) :
              /\ board[i].kind = "King"
              /\ board[i].color = lastMove.piece.color
              /\ board[i].position = Coordinate(kingColumn, row)
        /\ \A r \in 1..Len(before) :
              (before[r].kind = "Rook" /\ before[r].position = Coordinate(rookColumn, row)) =>
                  \E i \in 1..Len(board) :
                      /\ board[i].kind = "Rook"
                      /\ board[i].color = before[r].color
                      /\ board[i].position = Coordinate(rookTarget, row)
        /\ isEmpty(board, Coordinate(rookColumn, row))

\* C9: when an unmoved king has moved to column 2 (column 6) of its row,
\* the board King.move returned holds the king there and the rook of column
\* 0 (column 7) of that row on column 3 (column 5), the corner vacated.
C9_CastlingRelocatesRook ==
    /\ castled(2, 0) => castlingDone(2, 0, 3)
    /\ castled(6, 7) => castlingDone(6, 7, 5)

\* C9 witness: an unmoved king has gone from its home square to column 2 or
\* column 6 with an unmoved rook of its color on the corner.
C9_Witness ==
    /\ lastMove # null
    /\ lastMove.piece.position.column = 4
    /\ \/ castled(2, 0) /\ Rook(lastMove.piece.color, 3, lastMove.piece.position.row, TRUE)
                              \in {board[i] : i \in 1..Len(board)}
       \/ castled(6, 7) /\ Rook(lastMove.piece.color, 5, lastMove.piece.position.row, TRUE)
                              \in {board[i] : i \in 1..Len(board)}

\* The pieces of the board before the last move that the claim lets a move
\* take off their square: the moving piece, the piece on the destination, a
\* pawn captured en passant, and the rook a castling move relocates.
mayLeaveSquare(j) ==
    LET before == lastMove.board
        mover == lastMove.piece
        row == mover.position.row
    IN  \/ before[j].position = mover.position
        \/ before[j].position = lastMove.newPosition
        \/ /\ mover.kind = "Pawn"
           /\ isEmpty(before, lastMove.newPosition)
           /\ j \in passedPawns(mover, lastMove.newPosition, before)
        \/ /\ mover.kind = "King" /\ mover.firstMove /\ before[j].kind = "Rook"
           /\ \/ /\ lastMove.newPosition = Coordinate(2, row)
                 /\ before[j].position = Coordinate(0, row)
              \/ /\ lastMove.newPosition = Coordinate(6, row)
                 /\ before[j].position = Coordinate(7, row)

\* C10 (as claimed): the board a move returns holds, on the same square and
\* with the same kind and color, every piece of the source board but the
\* moving piece, the piece on the destination, a pawn captured en passant
\* and the rook relocated by castling; at most one piece leaves the board.
C10_MoveKeepsOtherPieces ==
    lastMove # null =>
        /\ \A j \in 1..Len(lastMove.board) :
              \/ mayLeaveSquare(j)
              \/ \E i \in 1..Len(board) :
                    /\ board[i].position = lastMove.board[j].position
                    /\ board[i].kind = lastMove.board[j].kind
                    /\ board[i].color = lastMove.board[j].color
        /\ Len(board) >= Len(lastMove.board) - 1

\* The row the standard layout puts the pawns of a color on.
pawnStartRow(c) == IF c = "White" THEN 6 ELSE 1

\* C11 (as claimed): getOpenMoves of a pawn that stands alone on the board,
\* off the starting row of its color and with the square in front of it on
\* the board, returns exactly that square.
C11_MovedPawnOneStep ==
    (/\ call # null
     /\ call.op = "getOpenMoves"
     /\ call.args[1].kind = "Pawn"
     /\ Len(call.board) = 1
     /\ call.args[1].position.row # pawnStartRow(call.args[1].color)
     /\ inBounds(Coordinate(call.args[1].position.column,
                            call.args[1].position.row + pawnForward(call.args[1])))) =>
        /\ ~call.threw
        /\ call.result[1] = {Coordinate(call.args[1].position.column,
                                        call.args[1].position.row + pawnForward(call.args[1]))}

\* The row farthest from the side a color starts on.
farthestRow(c) == IF c = "White" THEN 0 ELSE 7

\* The pieces of board b that stand on square sq.
piecesOn(b, sq) == {b[i] : i \in {j \in 1..Len(b) : b[j].position = sq}}

\* C12: the board Pawn.move returns holds on the destination one piece of
\* the pawn's color: a Queen when the destination is on the farthest row of
\* that color, whether the square was empty or not, and a Pawn otherwise.
C12_PawnPromotesToQueen ==
    (lastMove # null /\ lastMove.piece.kind = "Pawn") =>
        \E placed \in piecesOn(board, lastMove.newPosition) :
            /\ piecesOn(board, lastMove.newPosition) = {placed}
            /\ placed.color = lastMove.piece.color
            /\ placed.kind = IF lastMove.newPosition.row = farthestRow(lastMove.piece.color)
                             THEN "Queen" ELSE "Pawn"

\* C12 witness: a pawn has moved onto an occupied square of its farthest row.
C12_Witness ==
    /\ lastMove # null
    /\ lastMove.piece.kind = "Pawn"
    /\ lastMove.newPosition.row = farthestRow(lastMove.piece.color)
    /\ ~isEmpty(lastMove.board, lastMove.newPosition)
    /\ lastMove.newPosition # lastMove.piece.position
    /\ Queen(lastMove.piece.color, lastMove.newPosition.column, lastMove.newPosition.row)
          \in piecesOn(board, lastMove.newPosition)

adjacent(m, sq) ==
    /\ m # sq
    /\ m.column - sq.column \in {-1, 0, 1}
    /\ m.row - sq.row \in {-1, 0, 1}

\* C14: in a game, once the king of a color has moved, getOpenMoves offers
\* that king nothing for being allowed to castle, and getAvailableMoves
\* offers it only squares around it, in every later board.
C14_NoCastlingAfterKingMoved ==
    \A i \in 1..Len(board) :
        (board[i].kind = "King" /\ board[i].color \in kingMoved) =>
            /\ getOpenMoves(board[i], board, TRUE) = getOpenMoves(board[i], board, FALSE)
            /\ ~getAvailableMovesThrows(board[i], board) =>
                  \A m \in getAvailableMoves(board[i], board) :
                      adjacent(m, board[i].position)

\* C14 witness: the white king, unmoved when the game was entered, has moved
\* and Black has answered; an unmoved white rook still stands on its corner.
C14_Witness ==
    /\ "White" \in kingMoved
    /\ color = "White"
    /\ lastMove # null
    /\ lastMove.piece.color = "Black"
    /\ \E i \in 1..Len(board) : board[i] = Rook("White", 7, 7, TRUE)
    /\ \E i \in 1..Len(board) :
          /\ board[i].kind = "King" /\ board[i].color = "White"
          /\ board[i].position.row = 7

\* C15: on every board of a game no two pieces stand on the same square,
\* after captures, en-passant captures and promotions included.
C15_OnePiecePerSquare ==
    \A i, j \in 1..Len(board) :
        i # j => board[i].position # board[j].position

\* C15 witness: the last move of the game took the piece that stood on its
\* destination, and the capturing piece stands there alone.
C15_Witness ==
    /\ lastMove # null
    /\ ~isEmpty(lastMove.board, lastMove.newPosition)
    /\ Len(board) = Len(lastMove.board) - 1
    /\ Cardinality(piecesOn(board, lastMove.newPosition)) = 1
    /\ getPieceAt(board, lastMove.newPosition).color = lastMove.piece.color

\* C16 (as claimed): on a board whose pieces all stand in bounds, one to a
\* square, every position getOpenMoves or getAvailableMoves returns is in
\* bounds.
C16_ReturnedMovesInBounds ==
    (/\ call # null
     /\ call.op \in {"getOpenMoves", "getAvailableMoves"}
     /\ ~call.threw
     /\ \A i \in 1..Len(call.board) : inBounds(call.board[i].position)
     /\ onePiecePerSquare(call.board)) =>
        \A m \in call.result[1] : inBounds(m)

\* C17: a call of move with a new position out of bounds, on a piece of any
\* class, throws, returns no board and leaves the given board as it was.
C17_MoveOutOfBoundsThrows ==
    (/\ call # null
     /\ call.op = "move"
     /\ ~inBounds(call.args[2])) =>
        /\ call.threw
        /\ call.result = <<>>
        /\ board = call.board

\* C17 witness: move has thrown on a board that holds a piece of every class.
C17_Witness ==
    /\ call # null
    /\ call.op = "move"
    /\ call.threw
    /\ ~inBounds(call.args[2])
    /\ {board[i].kind : i \in 1..Len(board)} =
          {"Pawn", "Knight", "Bishop", "Rook", "Queen", "King"}

\* C18: isEmpty and getPieceAt throw for every coordinate out of bounds;
\* getPieceAt throws for every coordinate in bounds that no piece stands on,
\* and otherwise returns a piece of the board that stands on the coordinate.
C18_BoardAccessErrors ==
    /\ (call # null /\ call.op = "isEmpty" /\ ~inBounds(call.args[1])) => call.threw
    /\ (call # null /\ call.op = "getPieceAt") =>
          IF \/ ~inBounds(call.args[1])
             \/ \A i \in 1..Len(call.board) : call.board[i].position # call.args[1]
          THEN call.threw
          ELSE /\ ~call.threw
               /\ call.result[1].position = call.args[1]
               /\ \E i \in 1..Len(call.board) : call.board[i] = call.result[1]

\* C18 witness: getPieceAt has returned the piece that stands on the
\* coordinate.
C18_Witness ==
    /\ call # null
    /\ call.op = "getPieceAt"
    /\ ~call.threw
    /\ call.result[1].position = call.args[1]

\* The color a call of inCheck, inCheckmate, inStalemate or getAvailableMoves
\* asks about.
calledColor == IF call.op = "getAvailableMoves" THEN call.args[1].color ELSE call.args[1]

\* C19 (as claimed): on a board without a king of the color, inCheck throws,
\* and so do getAvailableMoves, inCheckmate and inStalemate for that color.
C19_MissingKingThrows ==
    (/\ call # null
     /\ call.op \in {"inCheck", "getAvailableMoves", "inCheckmate", "inStalemate"}
     /\ noKingFound(calledColor, call.board)) =>
        call.threw

\* C19 (amended): on a board without a king of the color, inCheck,
\* inCheckmate and inStalemate throw; getAvailableMoves throws for a piece of
\* that color that has an open move (or whose getOpenMoves throws) and
\* returns no move for a piece that has none.
C19_MissingKingThrowsWhenChecked ==
    (/\ call # null
     /\ call.op \in {"inCheck", "getAvailableMoves", "inCheckmate", "inStalemate"}
     /\ noKingFound(calledColor, call.board)) =>
        IF call.op = "getAvailableMoves"
        THEN IF \/ call.args[1].kind = "Pawn" /\ PawnGetOpenMovesThrows(call.args[1], call.board)
                \/ getOpenMoves(call.args[1], call.board, TRUE) # {}
             THEN call.threw
             ELSE ~call.threw /\ call.result[1] = {}
        ELSE call.threw

\* C19 witness: getAvailableMoves has thrown for a piece that has open moves
\* on a board without a king of its color.
C19_Witness ==
    /\ call # null
    /\ call.op = "getAvailableMoves"
    /\ noKingFound(call.args[1].color, call.board)
    /\ ~(call.args[1].kind = "Pawn" /\ PawnGetOpenMovesThrows(call.args[1], call.board))
    /\ getOpenMoves(call.args[1], call.board, TRUE) # {}
    /\ call.threw

\* C20: for every position in bounds, isEmpty returns true exactly when no
\* piece of getPieces() has that position.
C20_IsEmptyIffNoPiece ==
    (/\ call # null
     /\ call.op = "isEmpty"
     /\ inBounds(call.args[1])) =>
        /\ ~call.threw
        /\ call.result[1] =
              (\A i \in 1..Len(getPieces(call.board)) :
                  getPieces(call.board)[i].position # call.args[1])

\* C20 witness: isEmpty has returned false for the square of a piece that is
\* not the first of the array.
C20_Witness ==
    /\ call # null
    /\ call.op = "isEmpty"
    /\ ~call.threw
    /\ call.result[1] = FALSE
    /\ Len(call.board) > 1
    /\ call.board[1].position # call.args[1]

\* C21: once the color to move is checkmated or stalemated on the current
\* board, no click changes the board, the color to move or the selection.
C21_GameOverIsTerminal ==
    [][\/ UNCHANGED <<board, color, selectedPiece>>
       \/ calculateWinner(board, color) = "null"]_vars

\* C21 witness: a move of the game has left the color to move checkmated or
\* stalemated.
C21_Witness ==
    /\ lastMove # null
    /\ selectedPiece = null
    /\ calculateWinner(board, color) \in {"Tie", otherColor(color)}

\* C22: a click changes the board or the color to move only when a piece of
\* the board of the color to move is selected and the new board is the one
\* its move returns for one of its available moves.
C22_BoardChangesByAvailableMove ==
    [][\/ UNCHANGED <<board, color>>
       \/ /\ selectedPiece # null
          /\ selectedPiece.color = color
          /\ \E i \in 1..Len(board) : board[i] = selectedPiece
          /\ \E p \in getAvailableMoves(selectedPiece, board) :
                board' = move(selectedPiece, p, board)]_vars

\* C22 witness: the board is the one the last move returned, a move of a
\* piece of the color that was to move to one of its available squares.
C22_Witness ==
    /\ lastMove # null
    /\ lastMove.piece.color = otherColor(color)
    /\ lastMove.newPosition \in getAvailableMoves(lastMove.piece, lastMove.board)
    /\ board = move(lastMove.piece, lastMove.newPosition, lastMove.board)
    /\ board # lastMove.board

\* C23: White moves first and the color to move flips on every accepted
\* move and on nothing else: White is to move after an even number of
\* accepted moves, Black after an odd number, and the last piece moved was
\* of the color that was to move.
C23_ColorsAlternate ==
    /\ color = IF plies % 2 = 0 THEN "White" ELSE "Black"
    /\ lastMove # null =>
          lastMove.piece.color = IF plies % 2 = 1 THEN "White" ELSE "Black"

\* C23 witness: White has moved and Black has answered.
C23_Witness ==
    /\ plies = 2
    /\ color = "White"
    /\ lastMove.piece.color = "Black"
    /\ \E i \in 1..Len(lastMove.board) :
          /\ lastMove.board[i].color = "White"
          /\ lastMove.board[i] \notin {startingBoard[j] : j \in 1..Len(startingBoard)}

\* The class the standard layout puts on a column of a back row.
backRowKind(column) ==
    CASE column \in {0, 7} -> "Rook"
      [] column \in {1, 6} -> "Knight"
      [] column \in {2, 5} -> "Bishop"
      [] column = 3 -> "Queen"
      [] column = 4 -> "King"

\* Board b is the standard layout with every piece unmoved and no pawn flagged.
standardLayout(b) ==
    /\ Len(b) = 32
    /\ \A c \in Colors : Cardinality({i \in 1..Len(b) : b[i].color = c}) = 16
    /\ onePiecePerSquare(b)
    /\ \A column \in 0..7 :
          /\ \E q \in piecesOn(b, Coordinate(column, 0)) :
                q.color = "Black" /\ q.kind = backRowKind(column)
          /\ \E q \in piecesOn(b, Coordinate(column, 1)) :
                q.color = "Black" /\ q.kind = "Pawn"
          /\ \E q \in piecesOn(b, Coordinate(column, 6)) :
                q.color = "White" /\ q.kind = "Pawn"
          /\ \E q \in piecesOn(b, Coordinate(column, 7)) :
                q.color = "White" /\ q.kind = backRowKind(column)
    /\ \A i \in 1..Len(b) :
          /\ b[i].kind \in {"Pawn", "Rook", "King"} => b[i].firstMove
          /\ b[i].kind = "Pawn" => ~b[i].enPassant

\* C24: the game starts on the standard layout, all pawns, rooks and kings
\* unmoved and no pawn flagged, with White to move and nothing selected,
\* and board and color stay so until the first move is accepted.
C24_StandardStart ==
    /\ standardLayout(board)
    /\ color = "White"
    /\ selectedPiece = null
    /\ [][plies' = 0 => (board' = board /\ color' = color)]_vars

\* C24 witness: the state the game starts in.
C24_Witness ==
    /\ plies = 0
    /\ lastMove = null
    /\ selectedPiece = null
    /\ color = "White"
    /\ Len(board) = 32
    /\ getPieceAt(board, Coordinate(4, 7)) = King("White", 4, 7, TRUE)
    /\ getPieceAt(board, Coordinate(3, 0)) = Queen("Black", 3, 0)

\* C25: on a board with a king of the color, inCheck(color, board) is true
\* exactly when some piece of the other color has the position of that king
\* among the positions its getOpenMoves(board, false) returns.
C25_InCheckIffKingAttacked ==
    \A c \in Colors :
        ~inCheckThrows(c, board) =>
            (inCheck(c, board) <=>
                \E k \in 1..Len(board), i \in 1..Len(board) :
                    /\ board[k].kind = "King" /\ board[k].color = c
                    /\ board[i].color = otherColor(c)
                    /\ board[k].position \in getOpenMoves(board[i], board, FALSE))

\* C25 witness: the piece just moved gives check to the king of the other
\* color, which was not in check before.
C25_Witness ==
    /\ lastMove # null
    /\ ~inCheckThrows(otherColor(lastMove.piece.color), board)
    /\ inCheck(otherColor(lastMove.piece.color), board)
    /\ ~inCheck(otherColor(lastMove.piece.color), lastMove.board)

\* C26: the chains of calls the operations start are bounded: inCheck calls
\* getOpenMoves and nothing deeper, so that the castling evaluation of
\* King.getOpenMoves, which calls inCheck, is never entered again within
\* itself; inCheckmate and inStalemate, which call getAvailableMoves, go
\* five calls deep at most.
C26_CallDepthBounded ==
    /\ \A c \in Colors : inCheckDepth(c, board) <= 2
    /\ \A i \in 1..Len(board) :
          /\ getOpenMovesDepth(board[i], board, TRUE) <= 3
          /\ getOpenMovesDepth(board[i], board, FALSE) = 1
    /\ \A c \in Colors : gameEndDepth(c, board) <= 5

\* C26 witness: an unmoved king whose getOpenMoves evaluates castling, on a
\* board where the other king is unmoved too, with an unmoved rook on a
\* corner of its row.
C26_Witness ==
    \E i, j \in 1..Len(board) :
        /\ board[i].color # board[j].color
        /\ castlingColumns(board[i], board, TRUE) # {}
        /\ castlingColumns(board[j], board, TRUE) # {}
        /\ getOpenMovesDepth(board[i], board, TRUE) = 3
        /\ getAvailableMovesDepth(board[i], board) = 4

\* C27: a call of getAvailableMoves(piece, board) that returns, returns the
\* open moves of the piece (castling enabled) after which no piece of the
\* other color has the square of the king of the piece's color among its
\* open moves: all of them and nothing else.
C27_AvailableMovesAreSafeOpenMoves ==
    (call # null /\ call.op = "getAvailableMoves" /\ ~call.threw) =>
        \A m \in AllCoordinates :
            m \in call.result[1] <=>
                /\ m \in getOpenMoves(call.args[1], call.board, TRUE)
                /\ ~kingAttacked(call.args[1].color, move(call.args[1], m, call.board))

\* C27 witness: getAvailableMoves returned some of the open moves of a piece
\* and left others out.
C27_Witness ==
    /\ call # null /\ call.op = "getAvailableMoves" /\ ~call.threw
    /\ call.result[1] # {}
    /\ call.result[1] # getOpenMoves(call.args[1], call.board, TRUE)
    /\ call.result[1] \subseteq AllCoordinates

\* The directions the specification gives each sliding class.
slideDirections(kind) ==
    LET diagonals == {d \in (-1..1) \X (-1..1) : d[1] # 0 /\ d[2] # 0}
        straights == {d \in (-1..1) \X (-1..1) : (d[1] = 0) # (d[2] = 0)}
    IN  CASE kind = "Bishop" -> diagonals
          [] kind = "Rook" -> straights
          [] kind = "Queen" -> diagonals \cup straights

\* Square n steps from the piece in direction d.
stepsAway(piece, d, n) ==
    Coordinate(piece.position.column + n * d[1], piece.position.row + n * d[2])

\* The squares of the run of piece in direction d: the in-bounds squares
\* with no piece between them and the piece, that hold no piece of its color.
runOf(piece, b, d) ==
    {stepsAway(piece, d, n) : n \in {k \in 1..(BoardSize - 1) :
        /\ inBounds(stepsAway(piece, d, k))
        /\ \A j \in 1..(k - 1) : piecesOn(b, stepsAway(piece, d, j)) = {}
        /\ \A q \in piecesOn(b, stepsAway(piece, d, k)) : q.color # piece.color}}

\* C28: the open moves of a Bishop, Rook or Queen are, for each of its
\* directions, the consecutive empty in-bounds squares from the piece on and
\* the first occupied in-bounds square if it holds a piece of the other
\* color: nothing beyond the first occupied square, no square of its own
\* color.
C28_SlidersRunToFirstPiece ==
    \A i \in 1..Len(board) :
        board[i].kind \in {"Bishop", "Rook", "Queen"} =>
            getOpenMoves(board[i], board, TRUE) =
                UNION {runOf(board[i], board, d) : d \in slideDirections(board[i].kind)}

\* C28 witness: after a move, a sliding piece has a direction that ends on a
\* piece of the other color with an in-bounds square behind it, and a
\* direction that ends before a piece of its own color.
C28_Witness ==
    /\ lastMove # null
    /\ \E i \in 1..Len(board) :
        /\ board[i].kind \in {"Bishop", "Rook", "Queen"}
        /\ \E d \in slideDirections(board[i].kind), n \in 2..(BoardSize - 2) :
              /\ stepsAway(board[i], d, n) \in getOpenMoves(board[i], board, TRUE)
              /\ stepsAway(board[i], d, n - 1) \in getOpenMoves(board[i], board, TRUE)
              /\ piecesOn(board, stepsAway(board[i], d, n)) # {}
              /\ inBounds(stepsAway(board[i], d, n + 1))
              /\ stepsAway(board[i], d, n + 1) \notin getOpenMoves(board[i], board, TRUE)
        /\ \E d \in slideDirections(board[i].kind), n \in 1..(BoardSize - 1) :
              /\ \E q \in piecesOn(board, stepsAway(board[i], d, n)) : q.color = board[i].color
              /\ stepsAway(board[i], d, n) \notin getOpenMoves(board[i], board, TRUE)
              /\ \A j \in 1..(n - 1) : stepsAway(board[i], d, j) \in getOpenMoves(board[i], board, TRUE)

\* Square n steps in front of a pawn, k columns to its right.
pawnAhead(piece, n, k) ==
    Coordinate(piece.position.column + k, piece.position.row + n * pawnForward(piece))

\* A square of the board that holds no piece.
emptySquare(b, sq) == inBounds(sq) /\ piecesOn(b, sq) = {}

\* The moves the specification gives a pawn, en passant aside.
claimedPawnMoves(piece, b) ==
    {sq \in {pawnAhead(piece, 1, 0)} : emptySquare(b, sq)}
    \cup {sq \in {pawnAhead(piece, 2, 0)} :
            piece.firstMove /\ emptySquare(b, pawnAhead(piece, 1, 0)) /\ emptySquare(b, sq)}
    \cup {sq \in {pawnAhead(piece, 1, -1), pawnAhead(piece, 1, 1)} :
            inBounds(sq) /\ \E q \in piecesOn(b, sq) : q.color # piece.color}

\* The forward-diagonal squares beside which a flagged opposing pawn stands.
enPassantSquares(piece, b) ==
    {pawnAhead(piece, 1, k) : k \in {j \in {-1, 1} : flaggedOpponentOn(piece, b, pawnAhead(piece, 0, j))}}

\* C29 (as claimed): getOpenMoves of a pawn returns the square in front if it
\* is on the board and empty, the square two steps ahead if the pawn is
\* eligible and both squares are empty, each forward-diagonal square on the
\* board that holds a piece of the other color, and beyond these only
\* en-passant squares.
C29_PawnOpenMoves ==
    (call # null /\ call.op = "getOpenMoves" /\ call.args[1].kind = "Pawn") =>
        /\ ~call.threw
        /\ claimedPawnMoves(call.args[1], call.board) \subseteq call.result[1]
        /\ call.result[1] \ claimedPawnMoves(call.args[1], call.board)
              \subseteq enPassantSquares(call.args[1], call.board)

\* The distances, in columns and rows, from a piece to a square.
columnsApart(piece, sq) ==
    IF sq.column >= piece.position.column
    THEN sq.column - piece.position.column ELSE piece.position.column - sq.column

rowsApart(piece, sq) ==
    IF sq.row >= piece.position.row
    THEN sq.row - piece.position.row ELSE piece.position.row - sq.row

\* The squares of the board a knight's L-shaped step, or a king's step to an
\* adjacent square, leads to.
stepSquares(piece) ==
    {sq \in AllCoordinates :
        IF piece.kind = "Knight"
        THEN {columnsApart(piece, sq), rowsApart(piece, sq)} = {1, 2}
        ELSE /\ sq # piece.position
             /\ columnsApart(piece, sq) <= 1 /\ rowsApart(piece, sq) <= 1}

\* C30: the open moves of a Knight are its L-shaped steps to squares of the
\* board, and those of a King without castling its steps to adjacent squares
\* of the board, that hold no piece of its own color; squares that hold a
\* piece of the other color are among them.
C30_KnightAndKingSteps ==
    \A i \in 1..Len(board) :
        board[i].kind \in {"Knight", "King"} =>
            getOpenMoves(board[i], board, FALSE) =
                {sq \in stepSquares(board[i]) :
                    \A q \in piecesOn(board, sq) : q.color # board[i].color}

\* C30 witness: after a move, a knight near the edge has among its open
\* moves a square that holds a piece of the other color, and not a square
\* that holds a piece of its own; a king has among its open moves a square
\* that holds a piece of the other color.
C30_Witness ==
    /\ lastMove # null
    /\ \E i \in 1..Len(board) :
        /\ board[i].kind = "Knight"
        /\ Cardinality(stepSquares(board[i])) < 8
        /\ \E sq \in getOpenMoves(board[i], board, FALSE) : piecesOn(board, sq) # {}
        /\ \E sq \in stepSquares(board[i]) : sq \notin getOpenMoves(board[i], board, FALSE)
    /\ \E i \in 1..Len(board) :
        /\ board[i].kind = "King"
        /\ \E sq \in getOpenMoves(board[i], board, FALSE) : piecesOn(board, sq) # {}

\* The columns strictly between two columns, and those from one to the other.
columnsBetween(a, z) == {column \in 0..(BoardSize - 1) : (a < column /\ column < z) \/ (z < column /\ column < a)}

columnsFromTo(a, z) == columnsBetween(a, z) \cup {a, z}

\* The conditions the specification puts on castling towards the corner of
\* column rookColumn, for the king at index k of board b.
castlingAllowed(b, k, castle, rookColumn) ==
    LET king == b[k]
        row == king.position.row
        landing == IF rookColumn = 0 THEN 2 ELSE 6
    IN  /\ castle
        /\ king.firstMove
        /\ \E r \in 1..Len(b) :
              /\ b[r].kind = "Rook" /\ b[r].firstMove /\ b[r].color = king.color
              /\ b[r].position = Coordinate(rookColumn, row)
        /\ \A column \in columnsBetween(king.position.column, rookColumn) :
              piecesOn(b, Coordinate(column, row)) = {}
        /\ \A column \in columnsFromTo(king.position.column, landing) :
              ~kingAttacked(king.color, relocated(b, k, Coordinate(column, row)))

\* C31 (as claimed): a square King.getOpenMoves returns beyond the steps it
\* returns with castling disabled is column 2 or 6 of the king's row, and
\* then castling is enabled, the king unmoved, an unmoved rook of its color
\* on the corner of its row on that side, the squares between them empty,
\* and the king attacked neither where it stands nor on the squares up to the
\* one it lands on.
C31_CastlingOnlyWhenAllowed ==
    (call # null /\ call.op = "getOpenMoves" /\ call.args[1].kind = "King" /\ ~call.threw) =>
        \A d \in call.result[1] \ getOpenMoves(call.args[1], call.board, FALSE) :
            \E k \in 1..Len(call.board), rookColumn \in {0, BoardSize - 1} :
                /\ call.board[k] = call.args[1]
                /\ d = Coordinate(IF rookColumn = 0 THEN 2 ELSE 6, call.args[1].position.row)
                /\ castlingAllowed(call.board, k, call.args[2], rookColumn)

\* The piece stands on a square on which the board before the last move
\* held no piece of its kind and color: the move placed it there.
placedByLastMove(p) ==
    /\ lastMove # null
    /\ \A q \in piecesOn(lastMove.board, p.position) : q.kind # p.kind \/ q.color # p.color

\* C32 (as claimed): every king, rook or pawn a move places on a new square,
\* the rook a castling move relocates included, has firstMove false.
C32_PlacedPiecesHaveMoved ==
    \A i \in 1..Len(board) :
        (board[i].kind \in {"King", "Rook", "Pawn"} /\ placedByLastMove(board[i])) =>
            ~board[i].firstMove

\* The kings of color c on board b, by index.
kingsOf(c, b) == {i \in 1..Len(b) : b[i].kind = "King" /\ b[i].color = c}

\* C33: every board of a game holds exactly one White king and exactly one
\* Black king: no accepted move removes a king.
C33_OneKingEach ==
    \A c \in Colors : Cardinality(kingsOf(c, board)) = 1

\* C33 witness: after two accepted moves, the second of them a capture, the
\* king of the color to move is attacked and still on the board.
C33_Witness ==
    /\ plies = 2
    /\ Len(board) < Len(lastMove.board)
    /\ kingAttacked(color, board)
    /\ Cardinality(kingsOf(color, board)) = 1

\* C34: in every state of a game the color that is not to move, the one
\* that has just moved, has its king attacked by no piece of the color to
\* move.
C34_MoverNotLeftInCheck ==
    ~kingAttacked(otherColor(color), board)

\* C34 witness: the color that has just moved had, before its move, a piece
\* with an open move that would have left its king attacked, and its move
\* was accepted.
C34_Witness ==
    /\ lastMove # null
    /\ lastMove.piece.color = otherColor(color)
    /\ \E i \in 1..Len(lastMove.board) :
          /\ lastMove.board[i].color = lastMove.piece.color
          /\ \E m \in getOpenMoves(lastMove.board[i], lastMove.board, TRUE) :
                kingAttacked(lastMove.piece.color, move(lastMove.board[i], m, lastMove.board))

\* C35: on every board of a game none of getOpenMoves, getAvailableMoves,
\* inCheck, inCheckmate and inStalemate throws, for any piece and any color.
C35_NoCallThrows ==
    /\ \A i \in 1..Len(board) :
          /\ \A castle \in BOOLEAN : ~getOpenMovesThrows(board[i], board, castle)
          /\ ~getAvailableMovesThrows(board[i], board)
    /\ \A c \in Colors :
          /\ ~inCheckThrows(c, board)
          /\ ~inCheckmateThrows(c, board)
          /\ ~inStalemateThrows(c, board)

\* C35 witness: after an accepted move a pawn stands one step from its
\* farthest row with the square in front of it empty, so that the square two
\* steps ahead of it is off the board.
C35_Witness ==
    /\ lastMove # null
    /\ \E i \in 1..Len(board) :
          /\ board[i].kind = "Pawn"
          /\ board[i].position.row + pawnForward(board[i]) = farthestRow(board[i].color)
          /\ isEmpty(board, pawnAhead(board[i], 1, 0))

\* C36: on every board of a game a pawn has firstMove exactly when it stands
\* on the starting row of its color, and no pawn stands on row 0 or row 7.
C36_PawnEligibleOnStartRow ==
    \A i \in 1..Len(board) :
        board[i].kind = "Pawn" =>
            /\ board[i].firstMove <=> board[i].position.row = pawnStartRow(board[i].color)
            /\ board[i].position.row \notin {0, BoardSize - 1}

\* C36 witness: after two accepted moves, the pawn that has just left its
\* starting row stands on a board with an opposing pawn that is off its own
\* starting row.
C36_Witness ==
    /\ plies = 2
    /\ lastMove.piece.kind = "Pawn"
    /\ lastMove.piece.firstMove
    /\ \E i, j \in 1..Len(board) :
          /\ board[i].kind = "Pawn" /\ ~board[i].firstMove
          /\ board[i].position = lastMove.newPosition
          /\ board[j].kind = "Pawn" /\ board[j].color # board[i].color
          /\ board[j].position.row # pawnStartRow(board[j].color)

\* C37: in every state of a game the selection is empty or a piece of the
\* current board whose color is the color to move, and every accepted move
\* leaves the selection empty.
C37_SelectionOnBoardToMove ==
    /\ [](\/ selectedPiece = null
          \/ /\ \E i \in 1..Len(board) : board[i] = selectedPiece
             /\ selectedPiece.color = color)
    /\ [][plies' # plies => selectedPiece' = null]_vars

\* C37 witness: after an accepted move a piece of the color then to move is
\* selected.
C37_Witness ==
    /\ lastMove # null
    /\ selectedPiece # null
    /\ selectedPiece.color = color
    /\ selectedPiece.color # lastMove.piece.color

====
